---- MODULE Spec2Model ----
(***************************************************************************)
(* Model of the bedtime-story pipeline of src/main.py: the gateway         *)
(* call_llm (retry loop with exponential backoff), judge_story (parsing    *)
(* of the backend's reply into a StoryEvaluation) and create_story (the    *)
(* generate -> judge -> refine loop).                                      *)
(*                                                                         *)
(* Texts are sequences of one-character strings, so that str.strip,        *)
(* str.startswith, str.split, slicing and json.loads are modelled by what  *)
(* they do to the characters.                                              *)
(***************************************************************************)
EXTENDS Integers, Sequences, FiniteSets, TLC

(***************************************************************************)
(* Bounds of the model.                                                    *)
(***************************************************************************)
MaxAttempts == 3
MaxRetries == 4

(***************************************************************************)
(* Program constants.                                                      *)
(***************************************************************************)
DefaultRetries == 3
DefaultScore == 5
BackoffBase == 2

(***************************************************************************)
(* Python values.  None is a text that no backend text equals.             *)
(***************************************************************************)
None == <<"None">>

Q == "\""

\* Characters str.strip() removes (those that occur in the modelled texts).
PyWhitespace == {" ", "\n", "\t", "\r", "\f"}

\* Characters the json scanner skips between tokens.
JsonWhitespace == {" ", "\n", "\t", "\r"}

\* Characters json rejects inside a string literal (strict mode).
ControlChars == {"\n", "\t", "\r", "\f"}

Digits == {"0", "1", "2", "3", "4", "5", "6", "7", "8", "9"}

DigitVal(c) ==
    CASE c = "0" -> 0 [] c = "1" -> 1 [] c = "2" -> 2 [] c = "3" -> 3
      [] c = "4" -> 4 [] c = "5" -> 5 [] c = "6" -> 6 [] c = "7" -> 7
      [] c = "8" -> 8 [] c = "9" -> 9

(***************************************************************************)
(* str methods used by judge_story.                                        *)
(***************************************************************************)
\* s[i:] with a 1-based i
Drop(s, i) == SubSeq(s, i, Len(s))

RECURSIVE LStrip(_)
LStrip(s) ==
    IF s # <<>> /\ Head(s) \in PyWhitespace THEN LStrip(Tail(s)) ELSE s

RECURSIVE RStrip(_)
RStrip(s) ==
    IF s # <<>> /\ s[Len(s)] \in PyWhitespace
    THEN RStrip(SubSeq(s, 1, Len(s) - 1))
    ELSE s

\* str.strip()
Strip(s) == RStrip(LStrip(s))

\* str.startswith(p)
StartsWith(s, p) == Len(s) >= Len(p) /\ SubSeq(s, 1, Len(p)) = p

\* index of the first occurrence of sep in s at or after position i, 0 if none
RECURSIVE Find(_, _, _)
Find(s, sep, i) ==
    IF i + Len(sep) - 1 > Len(s) THEN 0
    ELSE IF SubSeq(s, i, i + Len(sep) - 1) = sep THEN i
    ELSE Find(s, sep, i + 1)

\* str.split(sep): the pieces between the occurrences of sep, left to right
RECURSIVE Split(_, _)
Split(s, sep) ==
    LET at == Find(s, sep, 1) IN
    IF at = 0 THEN <<s>>
    ELSE <<SubSeq(s, 1, at - 1)>> \o Split(Drop(s, at + Len(sep)), sep)

\* The grave accent (U+0060): the one character of the modelled texts that a
\* TLA+ string cannot hold, so it goes by its name.
Backtick == "GRAVE"

Fence == <<Backtick, Backtick, Backtick>>
JsonTag == <<"j", "s", "o", "n">>

(***************************************************************************)
(* JSON values as Python objects.  Each type has its own record field, so  *)
(* values of different types are different and still comparable:           *)
(*   [int |-> n]  [str |-> chars]  [bool |-> b]  [null |-> TRUE]           *)
(*   [list |-> <<v1, ...>>]  [obj |-> [key |-> value]] (a dict: one value  *)
(*   per key, the last one written).                                       *)
(***************************************************************************)
JInt(n) == [int |-> n]
JStr(cs) == [str |-> cs]
JBool(b) == [bool |-> b]
JNull == [null |-> TRUE]
JList(vs) == [list |-> vs]
JObj(d) == [obj |-> d]

IsInt(v) == DOMAIN v = {"int"}
IsStr(v) == DOMAIN v = {"str"}
IsBool(v) == DOMAIN v = {"bool"}
IsNull(v) == DOMAIN v = {"null"}
IsList(v) == DOMAIN v = {"list"}
IsObj(v) == DOMAIN v = {"obj"}

\* d[k] = v on a dict
DictPut(d, k, v) == [x \in (DOMAIN d) \cup {k} |-> IF x = k THEN v ELSE d[x]]

(***************************************************************************)
(* json.loads, for the productions that occur in the modelled texts:       *)
(* objects, arrays, string literals without escapes, the integers          *)
(* 0|[1-9][0-9]*, true, false and null.  A scan yields                     *)
(* [ok, val, end]: end is the position after the value.                    *)
(***************************************************************************)
ScanFail == [ok |-> FALSE, val |-> JNull, end |-> 0]
ScanOk(v, e) == [ok |-> TRUE, val |-> v, end |-> e]

\* the position of the first character at or after i that is not whitespace
RECURSIVE SkipWs(_, _)
SkipWs(s, i) ==
    IF i <= Len(s) /\ s[i] \in JsonWhitespace THEN SkipWs(s, i + 1) ELSE i

\* s[i:i+len(w)] == w
At(s, i, w) == i + Len(w) - 1 <= Len(s) /\ SubSeq(s, i, i + Len(w) - 1) = w

\* the string literal whose opening quote is at i
RECURSIVE ScanStringFrom(_, _, _)
ScanStringFrom(s, i, j) ==
    IF j > Len(s) THEN ScanFail
    ELSE IF s[j] = Q THEN ScanOk(SubSeq(s, i + 1, j - 1), j + 1)
    ELSE IF s[j] \in ControlChars THEN ScanFail
    ELSE ScanStringFrom(s, i, j + 1)

ScanString(s, i) == ScanStringFrom(s, i, i + 1)

\* the digits of [1-9][0-9]* from i on, most significant first
RECURSIVE ScanDigits(_, _, _)
ScanDigits(s, i, n) ==
    IF i <= Len(s) /\ s[i] \in Digits
    THEN ScanDigits(s, i + 1, 10 * n + DigitVal(s[i]))
    ELSE ScanOk(JInt(n), i)

ScanNumber(s, i) ==
    IF s[i] = "0" THEN ScanOk(JInt(0), i + 1) ELSE ScanDigits(s, i, 0)

RECURSIVE ScanOnce(_, _)
RECURSIVE ScanMembers(_, _, _)
RECURSIVE ScanElements(_, _, _)

\* the members of an object, the next property name expected at i
ScanMembers(s, i, d) ==
    IF ~(i <= Len(s) /\ s[i] = Q) THEN ScanFail
    ELSE LET key == ScanString(s, i) IN
         IF ~key.ok THEN ScanFail
         ELSE LET colon == SkipWs(s, key.end) IN
              IF ~(colon <= Len(s) /\ s[colon] = ":") THEN ScanFail
              ELSE LET v == ScanOnce(s, SkipWs(s, colon + 1)) IN
                   IF ~v.ok THEN ScanFail
                   ELSE LET k == SkipWs(s, v.end)
                            dd == DictPut(d, key.val, v.val)
                        IN IF k > Len(s) THEN ScanFail
                           ELSE IF s[k] = "}" THEN ScanOk(JObj(dd), k + 1)
                           ELSE IF s[k] = ","
                                THEN ScanMembers(s, SkipWs(s, k + 1), dd)
                           ELSE ScanFail

\* the elements of an array, the next value expected at i
ScanElements(s, i, vs) ==
    LET v == ScanOnce(s, i) IN
    IF ~v.ok THEN ScanFail
    ELSE LET k == SkipWs(s, v.end)
             vv == Append(vs, v.val)
         IN IF k > Len(s) THEN ScanFail
            ELSE IF s[k] = "]" THEN ScanOk(JList(vv), k + 1)
            ELSE IF s[k] = "," THEN ScanElements(s, SkipWs(s, k + 1), vv)
            ELSE ScanFail

\* the value that starts at i
ScanOnce(s, i) ==
    IF i > Len(s) THEN ScanFail
    ELSE IF s[i] = Q THEN
        LET str == ScanString(s, i) IN
        IF str.ok THEN ScanOk(JStr(str.val), str.end) ELSE ScanFail
    ELSE IF s[i] = "{" THEN
        LET j == SkipWs(s, i + 1) IN
        IF j <= Len(s) /\ s[j] = "}" THEN ScanOk(JObj(<<>>), j + 1)
        ELSE ScanMembers(s, j, <<>>)
    ELSE IF s[i] = "[" THEN
        LET j == SkipWs(s, i + 1) IN
        IF j <= Len(s) /\ s[j] = "]" THEN ScanOk(JList(<<>>), j + 1)
        ELSE ScanElements(s, j, <<>>)
    ELSE IF At(s, i, <<"n", "u", "l", "l">>) THEN ScanOk(JNull, i + 4)
    ELSE IF At(s, i, <<"t", "r", "u", "e">>) THEN ScanOk(JBool(TRUE), i + 4)
    ELSE IF At(s, i, <<"f", "a", "l", "s", "e">>) THEN ScanOk(JBool(FALSE), i + 5)
    ELSE IF s[i] \in Digits THEN ScanNumber(s, i)
    ELSE ScanFail

\* json.loads(s): [ok |-> FALSE] stands for json.JSONDecodeError
JsonLoads(s) ==
    LET r == ScanOnce(s, SkipWs(s, 1)) IN
    IF ~r.ok THEN ScanFail
    ELSE IF SkipWs(s, r.end) # Len(s) + 1 THEN ScanFail
    ELSE r

(***************************************************************************)
(* StoryEvaluation and the parsing of judge_story.                         *)
(***************************************************************************)
StoryEvaluation(score, feedback, approved) ==
    [score |-> score, feedback |-> feedback, approved |-> approved]

\* create_story's evaluation before the first judge_story call returns
NoEvaluation == [unbound |-> TRUE]

KeyScore == <<"s", "c", "o", "r", "e">>
KeyFeedback == <<"f", "e", "e", "d", "b", "a", "c", "k">>
KeyApproved == <<"a", "p", "p", "r", "o", "v", "e", "d">>

ParseFailureText ==
    <<"C", "o", "u", "l", "d", " ", "n", "o", "t", " ", "p", "a", "r", "s", "e",
      " ", "e", "v", "a", "l", "u", "a", "t", "i", "o", "n">>

\* a parse failure that counts as an approval
SentinelApproved ==
    StoryEvaluation(JInt(DefaultScore), JList(<<JStr(ParseFailureText)>>), JBool(TRUE))

\* the evaluation judge_story returns on json.JSONDecodeError
SentinelEvaluation ==
    StoryEvaluation(JInt(DefaultScore), JList(<<JStr(ParseFailureText)>>), JBool(FALSE))

\* dict.get(key, default)
DictGet(d, key, default) == IF key \in DOMAIN d THEN d[key] ELSE default

\* CleanReply that drops the fence and keeps the language tag
CleanReplyKeepTag(response) ==
    LET clean == Strip(response) IN
    IF StartsWith(clean, Fence) THEN Split(clean, Fence)[2] ELSE clean

\* the text judge_story hands to json.loads
CleanReply(response) ==
    LET clean == Strip(response) IN
    IF StartsWith(clean, Fence)
    THEN LET inner == Split(clean, Fence)[2] IN
         IF StartsWith(inner, JsonTag) THEN Drop(inner, Len(JsonTag) + 1) ELSE inner
    ELSE clean

\* judge_story from the reply of call_llm on: the evaluation it returns, or
\* the exception that leaves it (only json.JSONDecodeError is caught)
ParseEvaluation(response) ==
    LET data == JsonLoads(CleanReply(response)) IN
    IF ~data.ok THEN [raised |-> "none", eval |-> SentinelEvaluation]
    ELSE IF ~IsObj(data.val) THEN [raised |-> "AttributeError", eval |-> NoEvaluation]
    ELSE [raised |-> "none",
          eval |-> StoryEvaluation(DictGet(data.val.obj, KeyScore, JInt(DefaultScore)),
                                   DictGet(data.val.obj, KeyFeedback, JList(<<>>)),
                                   DictGet(data.val.obj, KeyApproved, JBool(FALSE)))]

(***************************************************************************)
(* What create_story and refine_story do with the fields of an evaluation. *)
(***************************************************************************)
\* bool(v)
Truthy(v) ==
    CASE IsInt(v) -> v.int # 0
      [] IsStr(v) -> v.str # <<>>
      [] IsBool(v) -> v.bool
      [] IsNull(v) -> FALSE
      [] IsList(v) -> v.list # <<>>
      [] IsObj(v) -> DOMAIN v.obj # {}

\* v[0]: the exception it raises, "none" if it yields a value
Subscript0(v) ==
    CASE IsList(v) -> IF v.list = <<>> THEN "IndexError" ELSE "none"
      [] IsStr(v) -> IF v.str = <<>> THEN "IndexError" ELSE "none"
      [] IsObj(v) -> "KeyError"
      [] OTHER -> "TypeError"

\* iter(v): the exception it raises, "none" if v is iterable
Iterate(v) == IF IsList(v) \/ IsStr(v) \/ IsObj(v) THEN "none" ELSE "TypeError"

\* the progress report of create_story: the exception it raises, "none" if none
PrintAttempt(verbose, evaluation) ==
    IF verbose /\ Truthy(evaluation.feedback)
    THEN Subscript0(evaluation.feedback)
    ELSE "none"

(***************************************************************************)
(* The texts the backend returns in the model.                             *)
(***************************************************************************)
Quoted(w) == <<Q>> \o w \o <<Q>>

StoryDragon == <<" ", "D", "r", "a", "g", "o", "n", "\n">>
StoryBunny == <<"B", "u", "n", "n", "y">>

ReplyApproved8 ==
    <<"{">> \o Quoted(KeyScore) \o <<":", "8", ",">> \o Quoted(KeyFeedback)
        \o <<":", "[", "]", ",">> \o Quoted(KeyApproved)
        \o <<":", "t", "r", "u", "e", "}">>
ReplyRejected4 ==
    <<"{">> \o Quoted(KeyScore) \o <<":", " ", "4", ",", " ">> \o Quoted(KeyFeedback)
        \o <<":", " ", "[">> \o Quoted(<<"l", "o", "n", "g">>) \o <<"]", ",", "\n">>
        \o Quoted(KeyApproved) \o <<":", "f", "a", "l", "s", "e", " ", "}">>
ReplyApprovedLow ==
    <<"{">> \o Quoted(KeyScore) \o <<":", "3", ",">> \o Quoted(KeyApproved)
        \o <<":", "t", "r", "u", "e", "}">>
ReplyNoFields == <<"{", "}">>
\* an object whose feedback is the words of the parse failure
ReplyParseFailureWords ==
    <<"{">> \o Quoted(KeyFeedback) \o <<":", "[">> \o Quoted(ParseFailureText)
        \o <<"]", "}">>
ReplyArray == <<"[", "]">>
ReplyNumber == <<"5">>
ReplyProse == <<"G", "o", "o", "d">>
ReplyEmpty == <<>>
ReplyTruncated == <<"{">> \o Quoted(KeyScore) \o <<":", "8">>
ReplyFeedbackNumber ==
    <<"{">> \o Quoted(KeyFeedback) \o <<":", "3", ",">> \o Quoted(KeyApproved)
        \o <<":", "t", "r", "u", "e", "}">>
ReplyFeedbackNull ==
    <<"{">> \o Quoted(KeyScore) \o <<":", "4", ",">> \o Quoted(KeyFeedback)
        \o <<":", "n", "u", "l", "l", "}">>
ReplyFenceInside ==
    <<"{">> \o Quoted(KeyFeedback) \o <<":", "[">> \o Quoted(Fence) \o <<"]", "}">>
ReplyFormFeed == <<"\f", "{", "}">>
ReplyPadded == <<" ", "\n">> \o ReplyApproved8 \o <<"\n">>

PythonTag == <<"p", "y">>

\* c in a fenced code block with a language tag
Fenced(tag, c) == Fence \o tag \o <<"\n">> \o c \o <<"\n">> \o Fence

Contents ==
    {ReplyApproved8, ReplyRejected4, ReplyApprovedLow, ReplyNoFields, ReplyArray,
     ReplyNumber, ReplyProse, ReplyEmpty, ReplyTruncated, ReplyFeedbackNumber,
     ReplyFeedbackNull, ReplyFenceInside, ReplyFormFeed, ReplyPadded}

Tags == {JsonTag, PythonTag}

\* the texts the backend returns to a judge_story that is called on its own
JudgeTexts ==
    {StoryDragon, StoryBunny} \cup Contents
        \cup {Fenced(tag, c) : tag \in Tags, c \in Contents}
        \cup {Fence, Fence \o ReplyRejected4 \o Fence, ReplyParseFailureWords}

\* the texts the backend returns inside create_story and to a call_llm that
\* is called on its own
PipelineTexts ==
    {StoryDragon, StoryBunny, ReplyApproved8, ReplyRejected4, ReplyApprovedLow,
     ReplyNoFields, ReplyArray, ReplyFeedbackNumber, ReplyFeedbackNull}

Texts(entered) == IF entered = "judge_story" THEN JudgeTexts ELSE PipelineTexts

\* the descriptions of the exceptions the backend call raises in the model:
\* two kinds for a call_llm that is called on its own, one elsewhere
Errors(entered) ==
    IF entered = "call_llm" THEN {"timeout", "rate limit"} ELSE {"timeout"}

RECURSIVE Pow(_, _)
Pow(b, n) == IF n = 0 THEN 1 ELSE b * Pow(b, n - 1)

\* Backoff capped at BackoffBase
BackoffCapped(attempt) == IF attempt >= 1 THEN BackoffBase ELSE 1

\* time.sleep's argument after the failure of attempt number attempt
Backoff(attempt) == Pow(BackoffBase, attempt)

NoError == [type |-> "none", where |-> "none", retries |-> 0, cause |-> "none"]

\* ApiCallFailed without the description of the failure
ApiCallFailedBare(r, e) ==
    [type |-> "RuntimeError", where |-> "call_llm", retries |-> r, cause |-> "none"]

\* RuntimeError(f"API call failed after {retries} attempts: {e}")
ApiCallFailed(r, e) ==
    [type |-> "RuntimeError", where |-> "call_llm", retries |-> r, cause |-> e]

\* an exception of the given type that no handler catches
Uncaught(type, where) ==
    [type |-> type, where |-> where, retries |-> 0, cause |-> "none"]

(***************************************************************************)
(* generate_story's tone table and the conversations sent to call_llm.     *)
(***************************************************************************)
\* MOODS: the tone instruction of each mood label
MOODS ==
    [m \in {"calm", "adventurous", "silly", "cozy"} |->
        CASE m = "calm" ->
               "Use a slow, soothing pace. Extra gentle. Good for anxious kids or late nights."
          [] m = "adventurous" ->
               "More excitement and action, but still end peacefully."
          [] m = "silly" ->
               "Include humor and funny moments. Light and playful."
          [] m = "cozy" ->
               "Focus on warmth, comfort, and safe feelings. Lots of sensory details."]

DefaultMood == "calm"

\* the lookup that ignores the label and takes the default tone
MoodInstructionDefault(mood) == MOODS[DefaultMood]

\* MOODS.get(mood, MOODS["calm"])
MoodInstruction(mood) ==
    IF mood \in DOMAIN MOODS THEN MOODS[mood] ELSE MOODS[DefaultMood]

\* no conversation: call_llm has not been called
NoMessages == [fn |-> "none"]

\* the conversation of generate_story: the system prompt with the tone and
\* the safety boundaries, the user turn with the request
GenerateMessages(req, mood) ==
    [fn |-> "generate_story", prompt |-> "STORY_SYSTEM_PROMPT",
     tone |-> MoodInstruction(mood), safety |-> "SAFETY_BOUNDARIES",
     request |-> req]

\* a judge conversation that leaves the request out
JudgeMessagesNoRequest(s, req) ==
    [fn |-> "judge_story", prompt |-> "JUDGE_SYSTEM_PROMPT",
     request |-> "", story |-> s]

\* the conversation of judge_story: the original request and the story
JudgeMessages(s, req) ==
    [fn |-> "judge_story", prompt |-> "JUDGE_SYSTEM_PROMPT",
     request |-> req, story |-> s]

\* the conversation of refine_story: the feedback items and the story
RefineMessages(s, feedback) ==
    [fn |-> "refine_story", prompt |-> "REFINE_SYSTEM_PROMPT",
     feedback |-> feedback, story |-> s]

\* the conversation of a caller outside the pipeline
CallerMessages == [fn |-> "caller"]

\* the requests and the mood labels of the model
Requests == {"a shy dragon", "a bunny"}
Moods == {"calm", "adventurous", "silly", "cozy", "grumpy", ""}
PipelineMoods == {"cozy", "grumpy"}

(***************************************************************************)
(* State.                                                                  *)
(*   entry         the function the caller called, "none" before the call  *)
(*   pc            where control is: "idle" before the call, the function  *)
(*                 whose call_llm is in progress, "returned" or "raised"   *)
(*                 once create_story or judge_story has ended              *)
(*   request, mood, max_attempts, verbose, attempt, story, evaluation      *)
(*                 the parameters and locals of create_story (request and  *)
(*                 mood also those of generate_story called on its own)    *)
(*   messages      the conversation of the current call_llm                *)
(*   retries, llmAttempt, completion, response, llmError, llmStatus        *)
(*                 the current call_llm: its parameter, its loop variable, *)
(*                 the text of the completion the backend returned, what   *)
(*                 call_llm returned or raised, and whether it is "idle",  *)
(*                 "calling", "returned" or "raised"                       *)
(*   sleeps, failures, backendCalls                                        *)
(*                 what the current call_llm has done so far: its          *)
(*                 time.sleep arguments, the exceptions of the backend in  *)
(*                 order, the number of backend calls                      *)
(*   error         the exception that left create_story or judge_story     *)
(*   reply         the response judge_story parsed last                    *)
(*   generateCalls, judgeCalls, refineCalls, llmCalls, apiCalls            *)
(*                 calls of each function and of the backend so far        *)
(***************************************************************************)
VARIABLES entry, pc, request, mood, messages, max_attempts, verbose, attempt, story, evaluation,
          retries, llmAttempt, completion, response, llmError, llmStatus,
          sleeps, failures, backendCalls,
          error, reply,
          generateCalls, judgeCalls, refineCalls, llmCalls, apiCalls

storyVars == <<request, mood, max_attempts, verbose, attempt, story, evaluation, error, reply>>
llmVars == <<retries, llmAttempt, completion, response, llmError, llmStatus,
             sleeps, failures, backendCalls>>
countVars == <<generateCalls, judgeCalls, refineCalls>>
vars == <<entry, pc, messages, storyVars, llmVars, countVars, llmCalls, apiCalls>>

Init ==
    /\ entry = "none"
    /\ pc = "idle"
    /\ request = ""
    /\ mood = DefaultMood
    /\ messages = NoMessages
    /\ max_attempts = 1
    /\ verbose = TRUE
    /\ attempt = 0
    /\ story = None
    /\ evaluation = NoEvaluation
    /\ retries = DefaultRetries
    /\ llmAttempt = 0
    /\ completion = None
    /\ response = None
    /\ llmError = NoError
    /\ llmStatus = "idle"
    /\ sleeps = <<>>
    /\ failures = <<>>
    /\ backendCalls = 0
    /\ error = NoError
    /\ reply = None
    /\ generateCalls = 0
    /\ judgeCalls = 0
    /\ refineCalls = 0
    /\ llmCalls = 0
    /\ apiCalls = 0

(***************************************************************************)
(* call_llm                                                                *)
(***************************************************************************)
\* entry of call_llm(messages, retries = r): the loop starts at attempt 0
EnterCallLlm(r) ==
    /\ retries' = r
    /\ llmAttempt' = 0
    /\ completion' = None
    /\ response' = None
    /\ llmError' = NoError
    /\ llmStatus' = "calling"
    /\ sleeps' = <<>>
    /\ failures' = <<>>
    /\ backendCalls' = 0
    /\ llmCalls' = llmCalls + 1

\* a caller outside the pipeline calls call_llm with a retry budget of its own
CallLlm(r) ==
    /\ pc = "idle"
    /\ entry' = "call_llm"
    /\ pc' = "call_llm"
    /\ EnterCallLlm(r)
    /\ messages' = CallerMessages
    /\ UNCHANGED <<storyVars, countVars, apiCalls>>

\* ReturnedText with the text trimmed
ReturnedTextTrimmed(t) == Strip(t)

\* what call_llm returns for the text t of the first completion
ReturnedText(t) == t

\* one iteration of the loop whose backend call succeeds with text t
BackendReturns(t) ==
    /\ llmStatus = "calling"
    /\ llmAttempt < retries
    /\ backendCalls' = backendCalls + 1
    /\ apiCalls' = apiCalls + 1
    /\ completion' = t
    /\ response' = ReturnedText(t)
    /\ llmStatus' = "returned"
    /\ UNCHANGED <<entry, pc, messages, storyVars, countVars, retries, llmAttempt, llmError,
                   sleeps, failures, llmCalls>>

\* RetryAfter with the test of the last attempt dropped
RetryAfterEvery(att, r) == att < r

\* whether the loop goes on after the failure of this attempt
RetryAfter(att, r) == att < r - 1

\* one iteration of the loop whose backend call raises e: sleep and go on,
\* or raise RuntimeError on the last attempt
BackendRaises(e) ==
    /\ llmStatus = "calling"
    /\ llmAttempt < retries
    /\ backendCalls' = backendCalls + 1
    /\ apiCalls' = apiCalls + 1
    /\ failures' = Append(failures, e)
    /\ IF RetryAfter(llmAttempt, retries)
       THEN /\ sleeps' = Append(sleeps, Backoff(llmAttempt))
            /\ llmAttempt' = llmAttempt + 1
            /\ UNCHANGED <<llmError, llmStatus>>
       ELSE /\ llmError' = ApiCallFailed(retries, e)
            /\ llmStatus' = "raised"
            /\ UNCHANGED <<sleeps, llmAttempt>>
    /\ UNCHANGED <<entry, pc, messages, storyVars, countVars, retries, completion,
                   response, llmCalls>>

\* range(retries) is empty: the function body ends and call_llm returns None
LoopEnds ==
    /\ llmStatus = "calling"
    /\ llmAttempt >= retries
    /\ response' = None
    /\ llmStatus' = "returned"
    /\ UNCHANGED <<entry, pc, messages, storyVars, countVars, retries, llmAttempt,
                   completion, llmError, sleeps, failures, backendCalls,
                   llmCalls, apiCalls>>

(***************************************************************************)
(* create_story and the functions it calls.  Each action runs the code     *)
(* from one return of call_llm up to the next call of call_llm (or to the  *)
(* end of create_story).                                                   *)
(***************************************************************************)
\* create_story(req, mood = m, max_attempts = n, verbose = v) up to the
\* call_llm of generate_story
CreateStory(req, m, n, v) ==
    /\ pc = "idle"
    /\ entry' = "create_story"
    /\ request' = req
    /\ mood' = m
    /\ messages' = GenerateMessages(req, m)
    /\ max_attempts' = n
    /\ verbose' = v
    /\ generateCalls' = generateCalls + 1
    /\ pc' = "generate_story"
    /\ EnterCallLlm(DefaultRetries)
    /\ UNCHANGED <<attempt, story, evaluation, error, reply,
                   judgeCalls, refineCalls, apiCalls>>

\* judge_story(story, request) up to its call_llm
EnterJudgeStory ==
    /\ judgeCalls' = judgeCalls + 1
    /\ pc' = "judge_story"
    /\ EnterCallLlm(DefaultRetries)

\* generate_story returns; the loop starts and calls judge_story
GenerateReturns ==
    /\ pc = "generate_story"
    /\ llmStatus = "returned"
    /\ entry = "create_story"
    /\ story' = response
    /\ attempt' = 0
    /\ EnterJudgeStory
    /\ messages' = JudgeMessages(story', request)
    /\ UNCHANGED <<entry, request, mood, max_attempts, verbose, evaluation, error, reply,
                   generateCalls, refineCalls, apiCalls>>

\* an exception leaves create_story
Raise(e) ==
    /\ pc' = "raised"
    /\ error' = e
    /\ UNCHANGED <<messages, llmVars, llmCalls>>

\* Refines with the test of the last attempt dropped
RefinesOnLastAttempt(att, n) == att < n

\* whether the loop body calls refine_story after a verdict that did not
\* end the loop
Refines(att, n) == att < n - 1

\* LoopContinues for a loop that has one iteration more
LoopOneMore(att, n) == att < n

\* LoopContinues for a loop that is one iteration short
LoopOneShort(att, n) == att + 1 < n - 1

\* whether range(max_attempts) has an iteration after iteration att
LoopContinues(att, n) == att + 1 < n

\* an approval worked out from the score
ApprovedByScore(ev) == IsInt(ev.score) /\ ev.score.int >= 7

\* if evaluation.approved
Approved(ev) == Truthy(ev.approved)

\* where the loop body of create_story goes with an evaluation on attempt
\* att of n: the report, the break on approval, refine_story unless this is
\* the last attempt, the next iteration or the return
LoopBody(ev, att, n, vb) ==
    IF PrintAttempt(vb, ev) # "none" THEN "raised"
    ELSE IF Approved(ev) THEN "returned"
    ELSE IF Refines(att, n)
         THEN IF Iterate(ev.feedback) # "none" THEN "raised" ELSE "refine_story"
    ELSE IF LoopContinues(att, n) THEN "judge_story"
    ELSE "returned"

\* the end of one iteration of the loop: the next iteration calls
\* judge_story, or the loop is over and create_story returns
NextIteration ==
    IF LoopContinues(attempt, max_attempts)
    THEN /\ attempt' = attempt + 1
         /\ EnterJudgeStory
         /\ messages' = JudgeMessages(story', request)
    ELSE /\ pc' = "returned"
         /\ UNCHANGED <<attempt, judgeCalls, messages, llmVars, llmCalls>>

\* call_llm returns to judge_story: the reply is parsed, and the loop body
\* goes on with the evaluation (report, break on approval, refine_story
\* unless this was the last attempt)
JudgeReturns ==
    /\ entry = "create_story"
    /\ pc = "judge_story"
    /\ llmStatus = "returned"
    /\ reply' = response
    /\ UNCHANGED <<entry, request, mood, max_attempts, verbose, story,
                   generateCalls, apiCalls>>
    /\ LET parsed == ParseEvaluation(response)
           ev == parsed.eval
       IN IF parsed.raised # "none"
          THEN /\ Raise(Uncaught(parsed.raised, "judge_story"))
               /\ UNCHANGED <<evaluation, attempt, judgeCalls, refineCalls>>
          ELSE /\ evaluation' = ev
               /\ IF PrintAttempt(verbose, ev) # "none"
                  THEN /\ Raise(Uncaught(PrintAttempt(verbose, ev), "create_story"))
                       /\ UNCHANGED <<attempt, judgeCalls, refineCalls>>
                  ELSE IF Approved(ev)
                  THEN /\ pc' = "returned"
                       /\ UNCHANGED <<error, attempt, judgeCalls, refineCalls,
                                      messages, llmVars, llmCalls>>
                  ELSE IF Refines(attempt, max_attempts)
                  THEN /\ refineCalls' = refineCalls + 1
                       /\ UNCHANGED <<attempt, judgeCalls>>
                       /\ IF Iterate(ev.feedback) # "none"
                          THEN Raise(Uncaught(Iterate(ev.feedback), "refine_story"))
                          ELSE /\ pc' = "refine_story"
                               /\ EnterCallLlm(DefaultRetries)
                               /\ messages' = RefineMessages(story, ev.feedback)
                               /\ UNCHANGED error
                  ELSE /\ NextIteration
                       /\ UNCHANGED <<error, refineCalls>>

\* a caller outside the pipeline calls judge_story(s, req)
JudgeStory(s, req) ==
    /\ pc = "idle"
    /\ entry' = "judge_story"
    /\ EnterJudgeStory
    /\ messages' = JudgeMessages(s, req)
    /\ UNCHANGED <<storyVars, generateCalls, refineCalls, apiCalls>>

\* call_llm returns to a judge_story that was called on its own
JudgeStoryReturns ==
    /\ entry = "judge_story"
    /\ pc = "judge_story"
    /\ llmStatus = "returned"
    /\ reply' = response
    /\ LET parsed == ParseEvaluation(response) IN
       IF parsed.raised # "none"
       THEN /\ Raise(Uncaught(parsed.raised, "judge_story"))
            /\ UNCHANGED evaluation
       ELSE /\ evaluation' = parsed.eval
            /\ pc' = "returned"
            /\ UNCHANGED <<error, messages, llmVars, llmCalls>>
    /\ UNCHANGED <<entry, request, mood, max_attempts, verbose, attempt, story,
                   countVars, apiCalls>>

\* a caller outside the pipeline calls generate_story(req, mood = m)
GenerateStory(req, m) ==
    /\ pc = "idle"
    /\ entry' = "generate_story"
    /\ request' = req
    /\ mood' = m
    /\ messages' = GenerateMessages(req, m)
    /\ generateCalls' = generateCalls + 1
    /\ pc' = "generate_story"
    /\ EnterCallLlm(DefaultRetries)
    /\ UNCHANGED <<max_attempts, verbose, attempt, story, evaluation, error,
                   reply, judgeCalls, refineCalls, apiCalls>>

\* call_llm returns to a generate_story that was called on its own, which
\* returns the text as the story
GenerateStoryReturns ==
    /\ entry = "generate_story"
    /\ pc = "generate_story"
    /\ llmStatus = "returned"
    /\ story' = response
    /\ pc' = "returned"
    /\ UNCHANGED <<entry, request, mood, max_attempts, verbose, attempt,
                   evaluation, error, reply, messages, llmVars, countVars,
                   llmCalls, apiCalls>>

\* a refine_story whose story is returned without another judge_story call
RefineReturnsUnjudged ==
    /\ pc = "refine_story"
    /\ llmStatus = "returned"
    /\ story' = response
    /\ pc' = "returned"
    /\ UNCHANGED <<entry, request, mood, max_attempts, verbose, attempt,
                   evaluation, error, reply, messages, llmVars, countVars,
                   llmCalls, apiCalls>>

\* refine_story returns the new story, which ends the iteration
RefineReturns ==
    /\ pc = "refine_story"
    /\ llmStatus = "returned"
    /\ story' = response
    /\ NextIteration
    /\ UNCHANGED <<entry, request, mood, max_attempts, verbose, evaluation, error, reply,
                   generateCalls, refineCalls, apiCalls>>

\* a caller that answers the RuntimeError of call_llm by calling it again
CallLlmRaisesRetried ==
    /\ pc \in {"generate_story", "judge_story", "refine_story"}
    /\ llmStatus = "raised"
    /\ llmCalls < 2 * MaxAttempts
    /\ EnterCallLlm(DefaultRetries)
    /\ UNCHANGED <<entry, pc, messages, storyVars, countVars, apiCalls>>

\* the RuntimeError of call_llm passes through the caller and create_story
CallLlmRaises ==
    /\ pc \in {"generate_story", "judge_story", "refine_story"}
    /\ llmStatus = "raised"
    /\ Raise(llmError)
    /\ UNCHANGED <<entry, request, mood, max_attempts, verbose, attempt, story, evaluation,
                   reply, countVars, apiCalls>>

Next ==
    \/ \E r \in 0..MaxRetries : CallLlm(r)
    \/ \E req \in Requests, m \in PipelineMoods, n \in 1..MaxAttempts, v \in BOOLEAN :
           CreateStory(req, m, n, v)
    \/ \E req \in Requests : JudgeStory(StoryBunny, req)
    \/ \E req \in Requests, m \in Moods : GenerateStory(req, m)
    \/ \E t \in Texts(entry) : BackendReturns(t)
    \/ \E e \in Errors(entry) : BackendRaises(e)
    \/ LoopEnds
    \/ GenerateReturns
    \/ JudgeReturns
    \/ JudgeStoryReturns
    \/ GenerateStoryReturns
    \/ RefineReturns
    \/ CallLlmRaises

Spec == Init /\ [][Next]_vars

(***************************************************************************)
(* Properties of create_story's loop.                                      *)
(***************************************************************************)
\* C1: one create_story call with attempt budget max_attempts issues at
\* most max_attempts judge_story calls and at most max_attempts - 1
\* refine_story calls, whatever the verdicts are.
C1_CallBudget ==
    entry = "create_story" =>
        /\ judgeCalls <= max_attempts
        /\ refineCalls <= max_attempts - 1

\* a run that used the whole budget: three judgings, two refinements
C1_Witness ==
    /\ entry = "create_story"
    /\ pc = "returned"
    /\ max_attempts = 3
    /\ judgeCalls = 3
    /\ refineCalls = 2

\* C2: once judge_story has returned an approved evaluation, create_story
\* calls neither refine_story nor judge_story again and returns.
C2_ApprovalEndsCreateStory ==
    (/\ entry = "create_story"
     /\ evaluation # NoEvaluation
     /\ evaluation.approved = JBool(TRUE))
        => /\ pc = "returned"
           /\ llmStatus = "returned"
           /\ judgeCalls = attempt + 1
           /\ refineCalls = attempt

C4_AttemptBudget ==
    /\ backendCalls <= retries
    /\ llmStatus = "calling" => backendCalls = llmAttempt
    /\ llmStatus = "returned" /\ completion # None => backendCalls = llmAttempt + 1
    /\ llmStatus = "raised" =>
           /\ backendCalls = llmAttempt + 1
           /\ backendCalls = retries
    /\ Len(sleeps) = llmAttempt
    /\ retries >= 1 => Len(sleeps) <= retries - 1

\* every attempt of a budget of 3 failed: 3 backend calls, 2 sleeps
C4_Witness ==
    /\ llmStatus = "raised"
    /\ retries = 3
    /\ backendCalls = 3
    /\ Len(sleeps) = 2

\* C5: when every attempt of the budget has failed, call_llm raises the error
\* that carries the description of the last failure; call_llm raises no
\* other error, and raises it only then.
C5_ExhaustedCarriesLastFailure ==
    /\ (retries >= 1 /\ Len(failures) = retries) => llmStatus = "raised"
    /\ llmStatus = "raised" =>
           /\ Len(failures) = retries
           /\ completion = None
           /\ llmError.type = "RuntimeError"
           /\ llmError.retries = retries
           /\ llmError.cause = failures[Len(failures)]
    /\ llmStatus # "raised" => llmError = NoError
    /\ error.where = "call_llm" => llmStatus = "raised" /\ error = llmError

\* three failures, the last one different from the first, and the error
C5_Witness ==
    /\ llmStatus = "raised"
    /\ Len(failures) = 3
    /\ failures[1] # failures[3]
    /\ llmError.cause = failures[3]

\* the delays 2^0, 2^1, ..., 2^(f-1)
PowersOfTwo(f) == [i \in 1..f |-> Pow(2, i - 1)]

\* C6: when the backend fails f times and then succeeds within the budget,
\* call_llm returns the text of that completion unmodified, has made f + 1
\* backend calls and no more, and has slept f times, for 1, 2, ..., 2^(f-1).
C6_ReturnsFirstSuccess ==
    (llmStatus = "returned" /\ completion # None) =>
        /\ response = completion
        /\ backendCalls = Len(failures) + 1
        /\ backendCalls <= retries
        /\ sleeps = PowersOfTwo(Len(failures))

\* two failures, then a text with surrounding whitespace, budget 3
C6_Witness ==
    /\ llmStatus = "returned"
    /\ retries = 3
    /\ Len(failures) = 2
    /\ completion = StoryDragon
    /\ response = StoryDragon
    /\ sleeps = <<1, 2>>

\* C7 as stated: the delay before attempt k, counted from 0, is 2^k
\* (sleeps[k] is the delay between attempt k - 1 and attempt k).
C7_DelayBeforeAttemptIsTwoToTheK ==
    \A k \in 1..Len(sleeps) : sleeps[k] = Pow(2, k)

\* C7 as amended: the delay after the failure of attempt k, counted from 0,
\* is 2^k, that is 2^(k-1) before attempt k >= 1; there is no delay before
\* attempt 0 and no cap.
C7_DelayAfterAttemptIsTwoToTheK ==
    /\ Len(sleeps) = llmAttempt
    /\ \A k \in 1..Len(sleeps) : sleeps[k] = Pow(2, k - 1)

\* three failures of a budget of 4: the delays 1, 2 and 4
C7_Witness ==
    /\ retries = 4
    /\ llmAttempt = 3
    /\ sleeps = <<1, 2, 4>>

(***************************************************************************)
(* Properties of judge_story.                                              *)
(***************************************************************************)
\* what the last judge_story call did: the exception that left it ("none"
\* if it returned) and the evaluation it returned
JudgeOutcome ==
    IF error.where = "judge_story"
    THEN [raised |-> error.type, eval |-> NoEvaluation]
    ELSE [raised |-> "none", eval |-> evaluation]

\* judge_story has parsed a reply
JudgeParsed == reply # None /\ error.where # "call_llm"

\* the reply holds a JSON object once the fence is removed
HoldsObject(r) ==
    LET data == JsonLoads(CleanReply(r)) IN data.ok /\ IsObj(data.val)

\* C8: judge_story raises for no reply of the backend, and returns the
\* sentinel evaluation for every reply that does not hold a JSON object
\* (malformed JSON, empty or fence-only text, JSON that is not an object).
C8_JudgeNeverRaises ==
    JudgeParsed =>
        /\ error.where # "judge_story"
        /\ ~HoldsObject(reply) => evaluation = SentinelEvaluation

NoBacktick(c) == \A i \in 1..Len(c) : c[i] # Backtick

\* the whitespace at the two ends of c is whitespace for json too
EdgeWhitespaceIsJson(c) ==
    \A i \in 1..Len(c) :
        (c[i] \in PyWhitespace \ JsonWhitespace) =>
            /\ i > Len(c) - Len(LStrip(c))
            /\ i <= Len(RStrip(c))

\* C9 as stated: for every content c and every language tag, judge_story
\* does with c in a fenced block what it does with c alone.
C9_FencedParsesAlike ==
    (entry = "judge_story" /\ JudgeParsed) =>
        \A c \in Contents, tag \in Tags :
            reply = Fenced(tag, c) => JudgeOutcome = ParseEvaluation(c)

\* C9 as amended: for every content c without a backtick whose leading and
\* trailing whitespace is JSON whitespace, judge_story does with c in a
\* fenced block tagged json what it does with c alone.
C9_FencedJsonParsesAlike ==
    (entry = "judge_story" /\ JudgeParsed) =>
        \A c \in Contents :
            (/\ reply = Fenced(JsonTag, c)
             /\ NoBacktick(c)
             /\ EdgeWhitespaceIsJson(c))
                => JudgeOutcome = ParseEvaluation(c)

\* an approval in a block tagged json is read as the approval it holds
C9_Witness ==
    /\ entry = "judge_story"
    /\ pc = "returned"
    /\ reply = Fenced(JsonTag, ReplyApproved8)
    /\ evaluation = StoryEvaluation(JInt(8), JList(<<>>), JBool(TRUE))

\* C10: in every evaluation judge_story returns, the score is an integer
\* from 1 to 10 and approved is true only with a score of 7 or more.
C10_ApprovedOnlyFromSeven ==
    evaluation # NoEvaluation =>
        /\ IsInt(evaluation.score)
        /\ IsBool(evaluation.approved)
        /\ IF IsInt(evaluation.score)
           THEN /\ evaluation.score.int \in 1..10
                /\ evaluation.approved = JBool(TRUE) => evaluation.score.int >= 7
           ELSE FALSE

\* a reply that json.loads cannot decode once the fence is taken off
Malformed(r) == r # None /\ ~JsonLoads(CleanReply(r)).ok

\* C11: when call_llm hands create_story a judge reply that is not JSON,
\* create_story raises nothing, the evaluation is the parse-failure one with
\* approved false, and the step either calls refine_story (attempts left) or
\* returns the unchanged story with that evaluation (last attempt).
C11_MalformedReplyNeverApproves ==
    [][(/\ entry = "create_story"
        /\ pc = "judge_story"
        /\ llmStatus = "returned"
        /\ Malformed(response))
         => /\ error' = NoError
            /\ evaluation'.score = JInt(DefaultScore)
            /\ evaluation'.feedback = JList(<<JStr(ParseFailureText)>>)
            /\ ~Truthy(evaluation'.approved)
            /\ IF attempt < max_attempts - 1
               THEN /\ pc' = "refine_story"
                    /\ refineCalls' = refineCalls + 1
                    /\ messages' = RefineMessages(story, evaluation'.feedback)
               ELSE /\ pc' = "returned"
                    /\ story' = story
                    /\ refineCalls' = refineCalls]_vars

\* a first malformed reply was followed by a refinement, a second one on the
\* last attempt is returned as the parse-failure evaluation
C11_Witness ==
    /\ entry = "create_story"
    /\ pc = "returned"
    /\ max_attempts = 2
    /\ judgeCalls = 2
    /\ refineCalls = 1
    /\ Malformed(reply)
    /\ messages.story = StoryBunny
    /\ evaluation = SentinelEvaluation

\* C12: when a call_llm inside create_story has used up its retries, the
\* next step takes its RuntimeError out of create_story with no call of any
\* kind made; from then on create_story has raised that error, has returned
\* no pair, and nothing more happens.
C12_ExhaustionIsFatal ==
    /\ [](entry = "create_story" /\ error.where = "call_llm"
            => /\ pc = "raised"
               /\ llmStatus = "raised"
               /\ error = ApiCallFailed(DefaultRetries, failures[Len(failures)]))
    /\ [][(entry = "create_story" /\ llmStatus = "raised")
            => /\ pc' = "raised"
               /\ error' = llmError
               /\ pc = "raised" => error' = error
               /\ UNCHANGED <<story, evaluation, countVars, llmCalls, apiCalls,
                              backendCalls>>]_vars

\* the refinement of a rejected story used up its retries: create_story
\* raised after three failed backend calls for it and called nothing since
C12_Witness ==
    /\ entry = "create_story"
    /\ pc = "raised"
    /\ error.where = "call_llm"
    /\ messages.fn = "refine_story"
    /\ refineCalls = 1
    /\ judgeCalls = 1
    /\ backendCalls = DefaultRetries
    /\ apiCalls = 2 + DefaultRetries

\* C13: with max_attempts = 1, once the judge's reply has reached
\* create_story, create_story has returned a story and an evaluation after
\* one generate_story call, one judge_story call and no refine_story call,
\* whatever the reply says.
C13_OneAttemptReturnsOnePair ==
    (entry = "create_story" /\ max_attempts = 1 /\ reply # None)
        => /\ pc = "returned"
           /\ generateCalls = 1
           /\ judgeCalls = 1
           /\ refineCalls = 0
           /\ story # None
           /\ evaluation # NoEvaluation

\* create_story is over: it has returned or raised
Terminated == pc \in {"returned", "raised"}

\* some step of create_story can be taken (JudgeReturns by its guard: it has
\* a branch for every reply)
CanStep ==
    \/ ENABLED (\E t \in Texts(entry) : BackendReturns(t))
    \/ ENABLED (\E e \in Errors(entry) : BackendRaises(e))
    \/ ENABLED GenerateReturns
    \/ (pc = "judge_story" /\ llmStatus = "returned")
    \/ ENABLED RefineReturns
    \/ ENABLED CallLlmRaises

\* how far a create_story has come: call_llm calls first, then the backend
\* calls of the current one, then its end
Rank ==
    llmCalls * (retries + 2)
      + (IF llmStatus = "calling" THEN backendCalls ELSE retries + 1)
      + (IF Terminated THEN 1 ELSE 0)

C15_UnknownMoodIsCalm ==
    /\ \A a, b \in DOMAIN MOODS : MOODS[a] = MOODS[b] => a = b
    /\ entry \in {"generate_story", "create_story"}
         => /\ generateCalls = 1
            /\ error.where # "generate_story"
            /\ messages.fn = "generate_story"
                 => /\ mood \in DOMAIN MOODS => messages.tone = MOODS[mood]
                    /\ mood \notin DOMAIN MOODS => messages.tone = MOODS["calm"]

\* generate_story("a bunny", mood = "grumpy") sent the calm tone and returned
\* the story the backend wrote
C15_Witness ==
    /\ entry = "generate_story"
    /\ pc = "returned"
    /\ mood = "grumpy"
    /\ request = "a bunny"
    /\ messages = GenerateMessages("a bunny", "calm")
    /\ story = StoryDragon

\* the scores a judge may give
Scores == {JInt(n) : n \in 1..10}

\* C16: what create_story does with a verdict (raise, return, call
\* refine_story, and with which story and feedback) is what it would do with
\* any verdict of the same approved and feedback and another score: two
\* runs whose verdicts differ only in score make the same calls and stop at
\* the same attempt.
C16_ScoreDecidesNothing ==
    [][(/\ entry = "create_story"
        /\ pc = "judge_story"
        /\ llmStatus = "returned"
        /\ ParseEvaluation(response).raised = "none")
         => \A sc \in Scores :
              LET twin == [evaluation' EXCEPT !.score = sc] IN
              /\ pc' = LoopBody(twin, attempt, max_attempts, verbose)
              /\ attempt' = attempt
              /\ judgeCalls' = judgeCalls
              /\ story' = story
              /\ pc' = "returned" => refineCalls' = refineCalls
              /\ pc' = "refine_story"
                    => /\ refineCalls' = refineCalls + 1
                       /\ messages' = RefineMessages(story, twin.feedback)]_vars

\* an approval with the score 3 ended a run of budget 3 after the first
\* verdict, as the approval with the score 8 does
C16_Witness ==
    /\ entry = "create_story"
    /\ pc = "returned"
    /\ max_attempts = MaxAttempts
    /\ judgeCalls = 1
    /\ refineCalls = 0
    /\ evaluation = StoryEvaluation(JInt(3), JList(<<>>), JBool(TRUE))

\* C17: when create_story has returned, its last call_llm was the one of
\* judge_story for the story it returns and the request it was given, and
\* the evaluation it returns is what judge_story makes of the reply to it.
C17_VerdictIsOfReturnedStory ==
    (entry = "create_story" /\ pc = "returned")
        => /\ story # None
           /\ messages = JudgeMessages(story, request)
           /\ llmStatus = "returned"
           /\ reply = response
           /\ ParseEvaluation(reply) = [raised |-> "none", eval |-> evaluation]
           /\ judgeCalls = refineCalls + 1

\* the first story was rejected and refined; the pair returned is the
\* refined story and the approval given to it
C17_Witness ==
    /\ entry = "create_story"
    /\ pc = "returned"
    /\ refineCalls = 1
    /\ story = StoryBunny
    /\ messages.story = StoryBunny
    /\ reply = ReplyApproved8
    /\ evaluation = StoryEvaluation(JInt(8), JList(<<>>), JBool(TRUE))

\* C18: in a create_story run generate_story is called once, first; each
\* judge_story call comes right after the generate_story call or a
\* refine_story call, gets the text that call returned as the story and the
\* request create_story was given; each refine_story call comes right after
\* a judge_story call and gets the story that was judged and the feedback of
\* the evaluation just made; so the two alternate, judge_story first (a
\* refine_story call that raises on its feedback before its call_llm is
\* counted as a call and ends the run).
C18_CallOrder ==
    /\ [](entry = "create_story"
            => /\ generateCalls = 1
               /\ judgeCalls - refineCalls \in {0, 1}
               /\ (judgeCalls = 0) = (messages.fn = "generate_story")
               /\ messages.fn = "judge_story"
                    => /\ \/ judgeCalls = refineCalls + 1
                          \/ pc = "raised" /\ error.where = "refine_story"
                       /\ messages.request = request
                       /\ messages.story = story
               /\ messages.fn = "refine_story"
                    => /\ judgeCalls = refineCalls
                       /\ messages.story = story
                       /\ messages.feedback = evaluation.feedback)
    /\ [][entry = "create_story"
            => /\ request' = request
               /\ generateCalls' = generateCalls
               /\ judgeCalls' # judgeCalls
                    => /\ judgeCalls' = judgeCalls + 1
                       /\ refineCalls' = refineCalls
                       /\ messages.fn \in {"generate_story", "refine_story"}
                       /\ llmStatus = "returned"
                       /\ story' = response
                       /\ messages'.fn = "judge_story"
                       /\ messages'.story = response
                       /\ messages'.request = request
               /\ refineCalls' # refineCalls
                    => /\ refineCalls' = refineCalls + 1
                       /\ judgeCalls' = judgeCalls
                       /\ messages.fn = "judge_story"
                       /\ llmStatus = "returned"
                       /\ story' = story
                       /\ evaluation' = ParseEvaluation(response).eval
                       /\ pc' = "refine_story"
                            => /\ messages'.fn = "refine_story"
                               /\ messages'.story = messages.story
                               /\ messages'.feedback = evaluation'.feedback]_vars

\* the second refine_story call of a run about a bunny: two verdicts before
\* it, the story in it is the one just judged, the feedback that of the
\* second verdict
C18_Witness ==
    /\ entry = "create_story"
    /\ request = "a bunny"
    /\ pc = "refine_story"
    /\ llmStatus = "calling"
    /\ judgeCalls = 2
    /\ refineCalls = 2
    /\ reply = ReplyRejected4
    /\ messages = RefineMessages(StoryBunny, ParseEvaluation(ReplyRejected4).eval.feedback)

\* C19: for every retry budget from 0 on, a call_llm that has returned has
\* made a backend call that succeeded and returns its text, and a call_llm
\* that has raised raises the RuntimeError for its used-up budget.
C19_ReturnsTextOrRaises ==
    /\ llmStatus = "returned"
         => /\ backendCalls >= 1
            /\ completion # None
            /\ response = completion
    /\ llmStatus = "raised"
         => /\ backendCalls = retries
            /\ llmError = ApiCallFailed(retries, failures[Len(failures)])

\* C20: the evaluation judge_story returns is the one of the parse failure
\* exactly when the reply could not be decoded: no reply that decodes to an
\* object, whatever fields it has or lacks, gives that evaluation.
C20_SentinelOnlyForUnparseable ==
    (entry = "judge_story" /\ pc = "returned")
        => (evaluation = SentinelEvaluation <=> Malformed(reply))

====
